---- MODULE Spec2Model ----
(***************************************************************************)
(* Model of wofs_ml_severe/io/ml_data_pipeline.py: the MLDataPipeline      *)
(* orchestrator (work discovery, completion check, stage dispatch and      *)
(* assembly) over a filesystem of summary files.                           *)
(*                                                                         *)
(* A path {base}/{date}/{time}/wofs_{TYPE}_{index}...{ext} is a record of  *)
(* its tokens; str.replace is token replacement on that record.            *)
(***************************************************************************)
EXTENDS Integers, Sequences, FiniteSets, TLC

VARIABLES
    dates,      \* self.dates, the date list given at construction
    fs,         \* the paths that exist on disk (os.path.exists / glob)
    partial,    \* existing paths whose write was never finished
    grid,       \* content of track files: the set of values of the track grid
    table,      \* content of feather tables
    pc,         \* the stage method __call__ is in
    ph,         \* "build" (work list not yet computed) or "run" (dispatched)
    work,       \* per stage, the work list of the current invocation
    st,         \* per stage, the status of every work item
    escaped,    \* an exception of an external collaborator is propagating
    inv,        \* number of invocations of __call__ so far
    done0,      \* output files complete when the current invocation started
    chk,        \* last stand-alone files_to_run call(s)
    final,      \* what concatenate_dataframes built
    world,      \* the environment: what the 30M files hold for the tracker
    faults      \* number of failures and crashes so far

vars == <<dates, fs, partial, grid, table, pc, ph, work, st, escaped, inv,
          done0, chk, final, world, faults>>

(***************************** bounds and constants ************************)
NT == 36
DURATION == 30
DT == 5
MaxInvocations == 2
MaxFaults == 1
NJobs == 2

DateLists == { <<"20220504">>, <<"20220504", "20220504">>,
               <<"20220504", "20220505">> }
times == <<"2200">>

Stages == <<"get_ensemble_tracks", "get_ml_features",
            "match_to_storm_reports", "concatenate_dataframes">>
StageSet == {Stages[i] : i \in 1..Len(Stages)}
\* the tags files_to_run is called with: origins and destinations
OriginTags == {"30M", "ENSEMBLETRACKS", "MLDATA"}
DestTags == {"ENSEMBLETRACKS", "MLDATA", "MLTARGETS"}

\* delta_time_step one step short of the forecast duration
delta_time_step_short == (DURATION \div DT) - 1

\* delta_time_step = int(self._DURATION / self._DT)
delta_time_step == DURATION \div DT

(***************************** sequences ***********************************)
Range(s) == {s[i] : i \in 1..Len(s)}

RECURSIVE SetToSeq(_)
SetToSeq(S) ==
    IF S = {} THEN <<>>
    ELSE LET x == CHOOSE y \in S : TRUE IN <<x>> \o SetToSeq(S \ {x})

RECURSIVE Flatten(_)
Flatten(ss) == IF ss = <<>> THEN <<>> ELSE Head(ss) \o Flatten(Tail(ss))

(***************************** paths ***************************************)
Path(d, t, tag, idx, ext) ==
    [date |-> d, time |-> t, tag |-> tag, idx |-> idx, ext |-> ext]

Dir(d, t) == [date |-> d, time |-> t]

\* str.replace(old_tag, new_tag) on the file-type token of a path
ReplaceTag(f, old, new) == [f EXCEPT !.tag = IF @ = old THEN new ELSE @]

\* ReplaceExt writing the new extension whatever the old one was
ReplaceExtAny(f, old, new) == [f EXCEPT !.ext = new]

\* str.replace('.nc', '.feather') on the extension of a path
ReplaceExt(f, old, new) == [f EXCEPT !.ext = IF @ = old THEN new ELSE @]

exists(f) == f \in fs

\* decompose_file_path(f)['TIME_INDEX']
TIME_INDEX(f) == f.idx

\* glob(join(base, d, t, 'wofs_{file_type}*'))
glob(d, t, file_type) ==
    SetToSeq({f \in fs : f.date = d /\ f.time = t /\ f.tag = file_type})

\* glob(join(indir, 'wofs_{file_type}_{idx:02d}*'))
globIdx(indir, file_type, idx) ==
    SetToSeq({f \in fs : /\ f.date = indir.date /\ f.time = indir.time
                         /\ f.tag = file_type /\ f.idx = idx})

(***************************** work discovery ******************************)
\* the inner loop of get_files over the times of one date
RECURSIVE FilesOfDate(_, _, _)
FilesOfDate(d, ts, file_type) ==
    IF ts = <<>> THEN <<>>
    ELSE LET t == Head(ts)
             f == IF t # "basemap" THEN glob(d, t, file_type) ELSE <<>>
         IN  (IF Len(f) >= 1 THEN f ELSE <<>>) \o FilesOfDate(d, Tail(ts), file_type)

RECURSIVE DirsOfDate(_, _)
DirsOfDate(d, ts) ==
    IF ts = <<>> THEN <<>>
    ELSE (IF Head(ts) # "basemap" THEN <<Dir(d, Head(ts))>> ELSE <<>>)
         \o DirsOfDate(d, Tail(ts))

\* get_files(file_type) with a file type
get_files(file_type) ==
    Flatten([i \in 1..Len(dates) |-> FilesOfDate(dates[i], times, file_type)])

\* get_files(file_type=None): the run directories
get_dirs ==
    Flatten([i \in 1..Len(dates) |-> DirsOfDate(dates[i], times)])

(***************************** completion check ****************************)
\* new_file with the tabular stages' list short of MLTARGETS
new_file_only_mldata(f, original_type, new_type) ==
    IF new_type \in {"MLDATA"}
    THEN [f EXCEPT !.tag = IF @ = original_type THEN new_type ELSE @,
                   !.ext = IF @ = "nc" THEN "feather" ELSE @]
    ELSE [f EXCEPT !.tag = IF @ = original_type THEN new_type ELSE @]

\* the destination path files_to_run derives for an origin file
new_file(f, original_type, new_type) ==
    IF new_type \in {"MLDATA", "MLTARGETS"}
    THEN ReplaceExt(ReplaceTag(f, original_type, new_type), "nc", "feather")
    ELSE ReplaceTag(f, original_type, new_type)

\* [i for i, x in enumerate(keep) if x], counted from 1
SelectIdx(keep) ==
    LET F[i \in 0..Len(keep)] ==
            IF i = 0 THEN <<>>
            ELSE IF keep[i] THEN Append(F[i - 1], i) ELSE F[i - 1]
    IN  F[Len(keep)]

\* files_to_run with "if not any(all_exist)" for "if not all(all_exist)"
files_to_run_not_any(original_type, new_type) ==
    LET files == get_files(original_type)
        new_files == [i \in 1..Len(files) |->
                         new_file(files[i], original_type, new_type)]
    IN  IF \E i \in 1..Len(files) : exists(new_files[i]) THEN <<>> ELSE files

files_to_run(original_type, new_type) ==
    LET files     == get_files(original_type)
        new_files == [i \in 1..Len(files) |->
                         new_file(files[i], original_type, new_type)]
        all_exist == [i \in 1..Len(files) |-> exists(new_files[i])]
        inds      == SelectIdx([i \in 1..Len(files) |-> ~all_exist[i]])
    IN  [k \in 1..Len(inds) |-> files[inds[k]]]

\* get_files_for_tracks with the comparison of the time index turned round
get_files_for_tracks_late ==
    LET filenames == files_to_run("30M", "ENSEMBLETRACKS")
    IN  SetToSeq({f \in Range(filenames) : TIME_INDEX(f) >= NT})

\* get_files_for_tracks: the 30M files without tracks, first three hours only
get_files_for_tracks ==
    LET filenames == files_to_run("30M", "ENSEMBLETRACKS")
        inds      == SelectIdx([i \in 1..Len(filenames) |->
                                   TIME_INDEX(filenames[i]) <= NT])
    IN  [k \in 1..Len(inds) |-> filenames[inds[k]]]


\* get_files_for_ml(indir): one work item per time window with all its inputs
get_files_for_ml(indir) ==
    LET \* no glob(...)[0] of window t = i - 1 raises IndexError
        Ok(i) ==
            LET t == i - 1 IN
            /\ globIdx(indir, "ENSEMBLETRACKS", t + delta_time_step) # <<>>
            /\ globIdx(indir, "ENV", t) # <<>>
            /\ \A u \in t..(t + delta_time_step) : globIdx(indir, "ENS", u) # <<>>
        Item(i) ==
            LET t == i - 1
                env_file == globIdx(indir, "ENV", t)[1]
            IN  [track_file |-> globIdx(indir, "ENSEMBLETRACKS", t + delta_time_step)[1],
                 ens_file   |-> [k \in 1..(delta_time_step + 1) |->
                                    globIdx(indir, "ENS", t + k - 1)[1]],
                 env_file   |-> env_file,
                 svr_file   |-> ReplaceTag(env_file, "ENV", "SVR")]
        inds == SelectIdx([i \in 1..((NT - delta_time_step) + 1) |-> Ok(i)])
    IN  [k \in 1..Len(inds) |-> Item(inds[k])]

\* the MLDATA path of a feature work item (get_ml_features, line 163)
ml_file(f) ==
    ReplaceExt(ReplaceTag(f.track_file, "ENSEMBLETRACKS", "MLDATA"), "nc", "feather")

\* the MLTARGETS path of a track file (worker, line 243)
target_file(track_file) ==
    ReplaceExt(ReplaceTag(track_file, "ENSEMBLETRACKS", "MLTARGETS"), "nc", "feather")

\* the loop of get_ml_features that builds files_to_load
files_to_load ==
    LET indirs == get_dirs
        perdir == [d \in 1..Len(indirs) |->
                     LET fl == get_files_for_ml(indirs[d])
                         inds == SelectIdx([i \in 1..Len(fl) |->
                                                ~exists(ml_file(fl[i]))])
                     IN  [k \in 1..Len(inds) |-> fl[inds[k]]]]
    IN  Flatten(perdir)

(***************************** work items **********************************)
\* the file a work item of a stage reads first
InputOf(s, item) ==
    IF s = "get_ml_features" THEN item.track_file ELSE item

\* the file a work item of a stage writes
OutputOf(s, item) ==
    CASE s = "get_ensemble_tracks"    -> ReplaceTag(item, "30M", "ENSEMBLETRACKS")
      [] s = "get_ml_features"        -> ml_file(item)
      [] s = "match_to_storm_reports" -> target_file(item)

Active(s) == {i \in 1..Len(st[s]) : st[s][i] \in {"running", "writing"}}

\* a pool that returns as soon as every item has been handed to a worker
JoinedOnSubmit(s) == \A i \in 1..Len(st[s]) : st[s][i] # "pending"

\* run_parallel / the feature engine return when every item is finished
Joined(s) == \A i \in 1..Len(st[s]) : st[s][i] \in {"done", "failed"}

NextStage(s) ==
    CASE s = "get_ensemble_tracks"    -> "get_ml_features"
      [] s = "get_ml_features"        -> "match_to_storm_reports"
      [] s = "match_to_storm_reports" -> "concatenate_dataframes"

NoChk == [n |-> 0]
NoFinal == [built |-> FALSE]
Resting == {"idle", "done", "raised", "crashed"}

(***************************** file contents *******************************)
Hazards == {"hail_severe", "tornado_severe"}
TrackVars == {"w_up__ensemble_tracks"}
dists == <<1, 3, 5, 10>>
Far == 99

\* what the storm-report source grids for the runs of a date: per hazard, the
\* distance (in grid points) from each track object to the nearest report
\* object. The first date has reports near its storms, the second has none
ReportsOf(d) ==
    [h \in Hazards |-> [l \in {1, 2} |->
        IF d = "20220504" /\ h = "hail_severe" /\ l = 1 THEN 3 ELSE
        IF d = "20220504" /\ h = "tornado_severe" /\ l = 2 THEN 1 ELSE Far]]

\* np.unique(values): the sorted distinct values
RECURSIVE unique(_)
unique(S) ==
    IF S = {} THEN <<>>
    ELSE LET m == CHOOSE x \in S : \A y \in S : x <= y
         IN  <<m>> \o unique(S \ {m})

\* labels = np.unique(tracks)[1:]
labelsOf(tracks) == Tail(unique(tracks))

\* the storm objects of a track grid: its non-background values
ObjectsOf(tracks) == tracks \ {0}

\* rows of the feature table the feature engine writes for a track file
FeatureRows(tracks) == Cardinality(ObjectsOf(tracks))

\* ObjectMatcher(min_dist_max=...).match_objects(tracks, target): the labels
\* of the track objects with a target object within min_dist_max
match_objects(tracks, target, min_dist_max) ==
    {l \in ObjectsOf(tracks) : target[l] <= min_dist_max}

\* storm_data_ds[var].values for the dataset reports_to_grid returned:
\* a hazard layer, or a variable of the track file itself
LayerOf(var, tracks, reports) ==
    IF var \in Hazards THEN reports[var]
    ELSE [l \in ObjectsOf(tracks) |-> 0]

\* reports_to_grid(ncfile): the data variables of the dataset it returns;
\* report.to_grid raising leaves ds as xr.open_dataset(ncfile) gave it
reports_to_grid(to_grid_ok) == IF to_grid_ok THEN Hazards ELSE TrackVars

ColNames(data_vars) ==
    {[var |-> v, km |-> dists[k] * 3] : v \in data_vars, k \in 1..Len(dists)}

\* the body of worker(track_file) up to pd.DataFrame(target_dict)
target_df(tracks, to_grid_ok, reports) ==
    LET labels    == labelsOf(tracks)
        data_vars == reports_to_grid(to_grid_ok)
        target_dict ==
            [c \in ColNames(data_vars) |->
                LET matched_tracks ==
                        match_objects(tracks, LayerOf(c.var, tracks, reports),
                                      c.km \div 3)
                IN  [k \in 1..Len(labels) |->
                        IF labels[k] \in matched_tracks THEN 1 ELSE 0]]
    IN  [kind |-> "targets",
         to_grid_raised |-> ~to_grid_ok,
         rows |-> IF DOMAIN target_dict = {} THEN 0 ELSE Len(labels),
         labels |-> labels,
         cols |-> target_dict]

feature_df(tracks) == [kind |-> "features", rows |-> FeatureRows(tracks)]

Put(f, k, v) == [x \in DOMAIN f \cup {k} |-> IF x = k THEN v ELSE f[x]]

(***************************** initial state *******************************)
\* the summary files of one run directory before the pipeline ever ran: some
\* 30M files, and the ENV, SVR and ENS files of the window starting at index
\* t0 (the SVR file may be missing, the ENS files may stop early)
InputFiles(d, idxs, t0, last_ens, svr) ==
    {Path(d, "2200", "30M", i, "nc") : i \in idxs}
    \cup {Path(d, "2200", "ENV", t0, "nc")}
    \cup (IF svr THEN {Path(d, "2200", "SVR", t0, "nc")} ELSE {})
    \cup {Path(d, "2200", "ENS", u, "nc") : u \in t0..last_ens}

\* what the run directory of the first date may hold: the 30M time indexes,
\* the first index of the window, the last ENS index, and whether the SVR
\* file of the window is there
Scenarios == { <<{12}, 6, 12, TRUE>>, <<{12, 37}, 6, 12, TRUE>>,
               <<{12, 37}, 6, 11, TRUE>>, <<{12}, 6, 12, FALSE>>,
               <<{5}, 0, 6, TRUE>>, <<{6}, 0, 6, TRUE>>,
               <<{36}, 30, 36, TRUE>> }

\* the track grid the tracker derives from a 30M file: no storm yet at index
\* 5, two storms over a background elsewhere, and g for the first date's
\* index-12 file
TrackerOutput(f, g) ==
    IF f.idx = 5 THEN {0}
    ELSE IF f.date = "20220504" /\ f.idx = 12 THEN g
    ELSE {0, 1, 2}

Init ==
    /\ dates \in DateLists
    /\ \E sc \in Scenarios :
          fs = InputFiles("20220504", sc[1], sc[2], sc[3], sc[4])
               \cup InputFiles("20220505", {12}, 6, 12, TRUE)
    /\ \E g \in {{0, 1, 2}, {1, 2}} :
          world = [f \in {x \in fs : x.tag = "30M"} |-> TrackerOutput(f, g)]
    /\ partial = {}
    /\ grid = << >>
    /\ table = << >>
    /\ pc = "idle"
    /\ ph = "build"
    /\ work = [s \in StageSet |-> <<>>]
    /\ st = [s \in StageSet |-> <<>>]
    /\ escaped = FALSE
    /\ inv = 0
    /\ done0 = {}
    /\ chk = NoChk
    /\ final = NoFinal
    /\ faults = 0

(***************************** the pipeline call ***************************)
\* __call__ is entered: nothing of an earlier invocation is kept in memory
Call ==
    /\ pc \in Resting
    /\ inv < MaxInvocations
    /\ pc' = "get_ensemble_tracks"
    /\ ph' = "build"
    /\ work' = [s \in StageSet |-> <<>>]
    /\ st' = [s \in StageSet |-> <<>>]
    /\ escaped' = FALSE
    /\ inv' = inv + 1
    /\ done0' = {f \in fs \ partial : f.tag \in DestTags}
    /\ chk' = NoChk
    /\ final' = NoFinal
    /\ UNCHANGED <<world, dates, fs, partial, grid, table, faults>>

\* a stage method computes its work list and hands it to its pool, or goes on
\* to the next stage when there is nothing to do
Dispatch(s, items) ==
    /\ pc = s
    /\ ph = "build"
    /\ IF Len(items) > 0
       THEN /\ work' = [work EXCEPT ![s] = items]
            /\ st' = [st EXCEPT ![s] = [i \in 1..Len(items) |-> "pending"]]
            /\ ph' = "run"
            /\ pc' = pc
       ELSE /\ pc' = NextStage(s)
            /\ UNCHANGED <<work, st, ph>>
    /\ UNCHANGED <<world, dates, fs, partial, grid, table, escaped, inv, done0,
                   chk, final, faults>>

get_ensemble_tracks == Dispatch("get_ensemble_tracks", get_files_for_tracks)

get_ml_features == Dispatch("get_ml_features", files_to_load)

match_to_storm_reports ==
    Dispatch("match_to_storm_reports", files_to_run("ENSEMBLETRACKS", "MLTARGETS"))

(***************************** work items of a pool ************************)
\* a worker of the pool (at most n_jobs at a time) takes an item
Start(s, i) ==
    /\ pc = s
    /\ ph = "run"
    /\ st[s][i] = "pending"
    /\ Cardinality(Active(s)) < NJobs
    /\ st' = [st EXCEPT ![s][i] = "running"]
    /\ UNCHANGED <<world, dates, fs, partial, grid, table, pc, ph, work, escaped,
                   inv, done0, chk, final, faults>>

\* the processing function raises for an item before it wrote anything. The
\* matching worker catches it (bare except); for the tracker and the feature
\* engine the file has no handler, so the collaborator either absorbs it or
\* lets it propagate to the stage method
Fail(s, i) ==
    /\ pc = s
    /\ ph = "run"
    /\ st[s][i] = "running"
    /\ \/ faults < MaxFaults /\ faults' = faults + 1
       \/ InputOf(s, work[s][i]) \in partial /\ faults' = faults
    /\ st' = [st EXCEPT ![s][i] = "failed"]
    /\ IF s = "match_to_storm_reports"
       THEN escaped' = escaped
       ELSE escaped' \in {escaped, TRUE}
    /\ UNCHANGED <<world, dates, fs, partial, grid, table, pc, ph, work, inv,
                   done0, chk, final>>

\* the item read its input and opens its output file for writing
Open(s, i) ==
    /\ pc = s
    /\ ph = "run"
    /\ st[s][i] = "running"
    /\ InputOf(s, work[s][i]) \in fs \ partial
    /\ st' = [st EXCEPT ![s][i] = "writing"]
    /\ fs' = fs \cup {OutputOf(s, work[s][i])}
    /\ partial' = partial \cup {OutputOf(s, work[s][i])}
    /\ UNCHANGED <<world, dates, grid, table, pc, ph, work, escaped, inv, done0,
                   chk, final, faults>>

\* the tracker finished writing a track file
FinishTrack(i) ==
    LET s == "get_ensemble_tracks" IN
    /\ pc = s
    /\ ph = "run"
    /\ st[s][i] = "writing"
    /\ st' = [st EXCEPT ![s][i] = "done"]
    /\ partial' = partial \ {OutputOf(s, work[s][i])}
    /\ grid' = Put(grid, OutputOf(s, work[s][i]), world[work[s][i]])
    /\ UNCHANGED <<world, dates, fs, table, pc, ph, work, escaped, inv, done0,
                   chk, final, faults>>

\* the feature engine finished writing a feature table
FinishFeatures(i) ==
    LET s == "get_ml_features" IN
    /\ pc = s
    /\ ph = "run"
    /\ st[s][i] = "writing"
    /\ st' = [st EXCEPT ![s][i] = "done"]
    /\ partial' = partial \ {OutputOf(s, work[s][i])}
    /\ table' = Put(table, OutputOf(s, work[s][i]),
                    feature_df(grid[work[s][i].track_file]))
    /\ UNCHANGED <<world, dates, fs, grid, pc, ph, work, escaped, inv, done0,
                   chk, final, faults>>

\* worker(track_file) finished df.to_feather(target_file); report.to_grid
\* worked or raised inside reports_to_grid
FinishWorker(i) ==
    LET s == "match_to_storm_reports" IN
    /\ pc = s
    /\ ph = "run"
    /\ st[s][i] = "writing"
    /\ st' = [st EXCEPT ![s][i] = "done"]
    /\ partial' = partial \ {OutputOf(s, work[s][i])}
    /\ \E to_grid_ok \in BOOLEAN :
          table' = Put(table, OutputOf(s, work[s][i]),
                       target_df(grid[work[s][i]], to_grid_ok,
                                 ReportsOf(work[s][i].date)))
    /\ UNCHANGED <<world, dates, fs, grid, pc, ph, work, escaped, inv, done0,
                   chk, final, faults>>

\* the pool has joined and the stage method returns to __call__
Return(s) ==
    /\ pc = s
    /\ ph = "run"
    /\ Joined(s)
    /\ ~escaped
    /\ pc' = NextStage(s)
    /\ ph' = "build"
    /\ UNCHANGED <<world, dates, fs, partial, grid, table, work, st, escaped,
                   inv, done0, chk, final, faults>>

\* the exception of a collaborator leaves the stage method and __call__
Raise(s) ==
    /\ pc = s
    /\ ph = "run"
    /\ escaped
    /\ Active(s) = {}
    /\ pc' = "raised"
    /\ UNCHANGED <<world, dates, fs, partial, grid, table, ph, work, st, escaped,
                   inv, done0, chk, final, faults>>

\* the process is killed (crash, timeout) at any point of a run: what it held
\* in memory is gone, the files stay as they are
Crash ==
    /\ pc \in StageSet
    /\ faults < MaxFaults
    /\ faults' = faults + 1
    /\ pc' = "crashed"
    /\ ph' = "build"
    /\ work' = [s \in StageSet |-> <<>>]
    /\ st' = [s \in StageSet |-> <<>>]
    /\ escaped' = FALSE
    /\ UNCHANGED <<world, dates, fs, partial, grid, table, inv, done0, chk, final>>

(***************************** assembly ************************************)
\* np.arange(a, b)
arange(a, b) == a..(b - 1)

\* ranges with the first window one index short
ranges_short == <<arange(0, 12), arange(12, 37)>>

ranges == <<arange(0, 13), arange(12, 37)>>

\* np.array(values, dtype=np.int8) for one value
int8(x) == ((x + 128) % 256) - 128

\* the index of pd.concat(dfs): every block keeps its own 0..n-1
BlockIndex(rows) ==
    Flatten([i \in 1..Len(rows) |-> [k \in 1..rows[i] |-> k - 1]])

IsUnique(s) == \A i, j \in 1..Len(s) : s[i] = s[j] => i = j

readable(f) == f \in fs \ partial

\* concatenate_dataframes up to the split: the combined table, or no table
\* when a read, a concat or the column assignment raises
combined ==
    LET ml_files     == get_files("MLDATA")
        target_files == [i \in 1..Len(ml_files) |->
                            ReplaceTag(ml_files[i], "MLDATA", "MLTARGETS")]
        loaded == /\ Len(ml_files) > 0
                  /\ \A i \in 1..Len(ml_files) :
                        readable(ml_files[i]) /\ readable(target_files[i])
        nfeat  == [i \in 1..Len(ml_files) |-> table[ml_files[i]].rows]
        ntarg  == [i \in 1..Len(ml_files) |-> table[target_files[i]].rows]
        findex == BlockIndex(nfeat)
        tindex == BlockIndex(ntarg)
        joined == findex = tindex \/ (IsUnique(findex) /\ IsUnique(tindex))
        nrows  == IF findex = tindex THEN Len(findex)
                  ELSE Cardinality(Range(findex) \cup Range(tindex))
        forecast_time_index ==
            Flatten([i \in 1..Len(ml_files) |->
                       [k \in 1..nfeat[i] |->
                           int8(TIME_INDEX(ml_files[i]) - delta_time_step)]])
    IN  IF loaded /\ joined /\ Len(forecast_time_index) = nrows
        THEN [built |-> TRUE,
              runs  |-> [i \in 1..Len(ml_files) |->
                           [file |-> ml_files[i], nfeat |-> nfeat[i],
                            ntarg |-> ntarg[i]]],
              nrows |-> nrows,
              forecast_time_index |-> forecast_time_index,
              first_hour  |-> {r \in 1..nrows : forecast_time_index[r] \in ranges[1]},
              second_hour |-> {r \in 1..nrows : forecast_time_index[r] \in ranges[2]}]
        ELSE NoFinal

concatenate_dataframes ==
    /\ pc = "concatenate_dataframes"
    /\ final' = combined
    /\ pc' = IF final'.built THEN "done" ELSE "raised"
    /\ UNCHANGED <<world, dates, fs, partial, grid, table, ph, work, st, escaped,
                   inv, done0, chk, faults>>

(***************************** stand-alone completion checks ***************)
\* files_to_run(A, B) called while no run is in progress
CheckOnce(A, B) ==
    /\ pc \in Resting
    /\ chk.n = 0
    /\ chk' = [n |-> 1, A |-> A, B |-> B, first |-> files_to_run(A, B),
               second |-> <<>>]
    /\ UNCHANGED <<world, dates, fs, partial, grid, table, pc, ph, work, st,
                   escaped, inv, done0, final, faults>>

\* the same call again, with no filesystem change in between
CheckAgain ==
    /\ pc \in Resting
    /\ chk.n = 1
    /\ chk' = [chk EXCEPT !.n = 2, !.second = files_to_run(chk.A, chk.B)]
    /\ UNCHANGED <<world, dates, fs, partial, grid, table, pc, ph, work, st,
                   escaped, inv, done0, final, faults>>

(***************************** specification *******************************)
PoolStages == {"get_ensemble_tracks", "get_ml_features", "match_to_storm_reports"}

Next ==
    \/ Call
    \/ get_ensemble_tracks
    \/ get_ml_features
    \/ match_to_storm_reports
    \/ \E s \in PoolStages : \E i \in 1..Len(st[s]) : Start(s, i)
    \/ \E s \in PoolStages : \E i \in 1..Len(st[s]) : Fail(s, i)
    \/ \E s \in PoolStages : \E i \in 1..Len(st[s]) : Open(s, i)
    \/ \E i \in 1..Len(st["get_ensemble_tracks"]) : FinishTrack(i)
    \/ \E i \in 1..Len(st["get_ml_features"]) : FinishFeatures(i)
    \/ \E i \in 1..Len(st["match_to_storm_reports"]) : FinishWorker(i)
    \/ \E s \in PoolStages : Return(s)
    \/ \E s \in PoolStages : Raise(s)
    \/ Crash
    \/ concatenate_dataframes
    \/ \E A \in OriginTags, B \in DestTags : CheckOnce(A, B)
    \/ CheckAgain

Spec == Init /\ [][Next]_vars

(***************************** claims: completion check ********************)
\* the files work discovery finds for a tag under the dates of the pipeline
Discovered(A) ==
    {f \in fs : f.tag = A /\ f.time = "2200" /\ \E i \in 1..Len(dates) : dates[i] = f.date}

\* the destination of an origin file: tag A replaced by B and, for the
\* tabular stages, the extension nc replaced by feather
DestinationOf(f, A, B) ==
    [date |-> f.date, time |-> f.time, idx |-> f.idx,
     tag |-> IF f.tag = A THEN B ELSE f.tag,
     ext |-> IF B \in {"MLDATA", "MLTARGETS"} /\ f.ext = "nc" THEN "feather" ELSE f.ext]

Outstanding(A, B) == {f \in Discovered(A) : DestinationOf(f, A, B) \notin fs}

\* C1: files_to_run(A, B) returns exactly the files discovered for A whose
\* derived destination path does not exist: none with an existing destination,
\* none with a missing destination left out.
C1_FilesToRunExact ==
    chk.n >= 1 => Range(chk.first) = Outstanding(chk.A, chk.B)

\* C1 witness: a check on a tabular destination that returned some origin
\* files and held back others whose destination exists
C1_Witness ==
    /\ chk.n >= 1
    /\ chk.B = "MLTARGETS"
    /\ chk.first # <<>>
    /\ \E f \in Discovered(chk.A) : DestinationOf(f, chk.A, chk.B) \in fs

\* C2 as claimed: the second of two completion checks with no filesystem
\* change in between returns an empty work list.
C2_SecondCheckEmpty ==
    chk.n = 2 => chk.second = <<>>

\* C2 amended: the second of two completion checks with no filesystem change
\* in between returns the work list the first returned, and it is empty
\* exactly when every discovered origin file already has its destination.
C2_SecondCheckSame ==
    chk.n = 2 =>
        /\ chk.second = chk.first
        /\ chk.second = <<>> <=> Outstanding(chk.A, chk.B) = {}

\* C2 witness: a second check that returned a non-empty list while some other
\* origin file has its destination
C2_Witness ==
    /\ chk.n = 2
    /\ chk.second # <<>>
    /\ \E f \in Discovered(chk.A) : DestinationOf(f, chk.A, chk.B) \in fs

\* the tracking stage has just dispatched: nothing has been written since its
\* work list was computed
TracksJustDispatched ==
    /\ pc = "get_ensemble_tracks"
    /\ ph = "run"
    /\ \A i \in 1..Len(st[pc]) : st[pc][i] = "pending"

\* the tracking stage has returned and the tracker wrote the track file of
\* every file it was given
TracksAllWritten ==
    /\ pc = "get_ml_features"
    /\ ph = "build"
    /\ work["get_ensemble_tracks"] # <<>>
    /\ \A i \in 1..Len(st["get_ensemble_tracks"]) :
          st["get_ensemble_tracks"][i] = "done"

\* every 30M file of the first three hours without a track file is in the
\* work list of the tracking stage
TracksDiscovery ==
    TracksJustDispatched =>
        \A f \in Outstanding("30M", "ENSEMBLETRACKS") :
            f.idx <= 36 => f \in Range(work["get_ensemble_tracks"])

\* C3 as claimed: get_files_for_tracks returns every 30M file (time index at
\* most 36) without a track file, and once the tracker has written the track
\* file of every returned file the completion check for (30M, ENSEMBLETRACKS)
\* returns an empty list.
C3_SecondCheckEmpty ==
    /\ TracksDiscovery
    /\ TracksAllWritten => files_to_run("30M", "ENSEMBLETRACKS") = <<>>

\* C3 amended: get_files_for_tracks returns every 30M file (time index at most
\* 36) without a track file, and once the tracker has written the track file
\* of every returned file a second get_files_for_tracks returns an empty list,
\* while the completion check for (30M, ENSEMBLETRACKS) returns
\* only 30M files with a time index above 36.
C3_SecondDiscoveryEmpty ==
    /\ TracksDiscovery
    /\ TracksAllWritten =>
          /\ get_files_for_tracks = <<>>
          /\ \A f \in Range(files_to_run("30M", "ENSEMBLETRACKS")) : f.idx > 36

\* C3 witness: the tracker wrote every track file it was asked for and a 30M
\* file beyond the third hour is still without one
C3_Witness ==
    /\ TracksAllWritten
    /\ \E f \in Discovered("30M") : f.idx = 12
    /\ files_to_run("30M", "ENSEMBLETRACKS") # <<>>

(***************************** claims: dispatch ****************************)
AllFinished(s) == \A i \in 1..Len(st[s]) : st[s][i] \in {"done", "failed"}

\* C4: in every stage dispatch a failure of the processing function for one
\* item is caught for that item: no exception escapes the stage method, and
\* once the stage is over every other item is done with its output file on
\* disk while the failed item's output file does not exist.
C4_FailureContained ==
    /\ ~(pc = "raised" /\ escaped)
    /\ \A s \in PoolStages :
          (Len(work[s]) > 0 /\ pc # s) =>
              \A i \in 1..Len(work[s]) :
                  \/ st[s][i] = "done" /\ OutputOf(s, work[s][i]) \in fs \ partial
                  \/ st[s][i] = "failed" /\ OutputOf(s, work[s][i]) \notin fs

\* C5: the stages run strictly in order: while __call__ is in a stage every
\* item of every earlier stage is done or failed, no later stage has a work
\* list, and the combined table is built only after all three pools are over.
C5_StagesSequential ==
    /\ \A k \in 1..Len(Stages) :
          pc = Stages[k] =>
              /\ \A j \in 1..(k - 1) : AllFinished(Stages[j])
              /\ \A j \in (k + 1)..Len(Stages) : work[Stages[j]] = <<>>
    /\ \A k \in 2..Len(Stages) :
          (\E i \in 1..Len(st[Stages[k]]) : st[Stages[k]][i] # "pending")
              => AllFinished(Stages[k - 1])
    /\ final.built => \A s \in PoolStages : AllFinished(s)

\* C5 witness: a matching worker is running after the tracker and the feature
\* engine both had work
C5_Witness ==
    /\ pc = "match_to_storm_reports"
    /\ \E i \in 1..Len(st[pc]) : st[pc][i] = "writing"
    /\ work["get_ensemble_tracks"] # <<>>
    /\ work["get_ml_features"] # <<>>

\* C6: after an interrupted run no partial output file is left that the
\* completion check would take for a finished one, and the next invocation
\* dispatches no unit whose output the earlier run completed and every
\* tracking unit whose output is not complete.
C6_CrashResumable ==
    /\ pc \in Resting => partial = {}
    /\ inv >= 2 =>
          \A s \in PoolStages : \A i \in 1..Len(work[s]) :
              OutputOf(s, work[s][i]) \notin done0
    /\ (inv >= 2 /\ TracksJustDispatched) =>
          \A f \in Discovered("30M") :
              (f.idx <= 36 /\ DestinationOf(f, "30M", "ENSEMBLETRACKS") \notin fs \ partial)
                  => f \in Range(work["get_ensemble_tracks"])

\* C7: no two workers of a stage write the same output file at the same time.
C7_SingleWriter ==
    \A s \in PoolStages : \A i, j \in 1..Len(work[s]) :
        (i # j /\ st[s][i] = "writing" /\ st[s][j] = "writing")
            => OutputOf(s, work[s][i]) # OutputOf(s, work[s][j])

(***************************** claims: assembly ****************************)
RECURSIVE SumSeq(_)
SumSeq(q) == IF q = <<>> THEN 0 ELSE Head(q) + SumSeq(Tail(q))

\* C8: for every run concatenate_dataframes loaded the feature table and the
\* target table have the same number of rows, and the combined table has the
\* sum of the per-run row counts, one forecast_time_index per row.
C8_RowAlignment ==
    final.built =>
        /\ \A i \in 1..Len(final.runs) : final.runs[i].nfeat = final.runs[i].ntarg
        /\ final.nrows = SumSeq([i \in 1..Len(final.runs) |-> final.runs[i].nfeat])
        /\ Len(final.forecast_time_index) = final.nrows

\* C9: every row of the combined table with forecast_time_index in 0..36 is
\* in first_hour exactly when its index is in 0..12 and in second_hour exactly
\* when its index is in 12..36.
C9_PartitionComplete ==
    final.built =>
        \A r \in 1..final.nrows :
            LET v == final.forecast_time_index[r] IN
            v \in 0..36 =>
                /\ r \in final.first_hour <=> v \in 0..12
                /\ r \in final.second_hour <=> v \in 12..36

\* C9 witness: a combined table with a row at index 0, a row at the shared
\* index 12, a row at index 13 and a row at index 36
C9_Witness ==
    /\ final.built
    /\ \E r \in final.first_hour \cap final.second_hour :
          final.forecast_time_index[r] = 12
    /\ \E r \in final.first_hour \ final.second_hour :
          final.forecast_time_index[r] = 0
    /\ \E r \in final.second_hour \ final.first_hour :
          final.forecast_time_index[r] = 13
    /\ \E r \in final.second_hour : final.forecast_time_index[r] = 36

\* C10: a target table written after report gridding failed has only columns
\* of hazard layers, and every cell of it is 0.
C10_GracefulDegrade ==
    \A f \in DOMAIN table :
        (table[f].kind = "targets" /\ table[f].to_grid_raised) =>
            \A c \in DOMAIN table[f].cols :
                /\ c.var \in Hazards
                /\ \A k \in 1..Len(table[f].cols[c]) : table[f].cols[c][k] = 0

(***************************** claims: target tables ***********************)
\* the track file a target table was derived from
TrackOf(f) == [f EXCEPT !.tag = "ENSEMBLETRACKS", !.ext = "nc"]

\* C11: a target table written from gridded hazard layers has one column per
\* hazard layer and distance threshold and one row per storm-track object
\* label of its track grid, whether or not the grid has a background value;
\* the cell of a hazard, a distance and a label is 1 exactly when the label
\* is in the matched set of that hazard and distance.
C11_TargetTableShape ==
    \A f \in DOMAIN table :
        (table[f].kind = "targets" /\ ~table[f].to_grid_raised) =>
            LET tracks == grid[TrackOf(f)]
                df     == table[f]
            IN  /\ Cardinality(DOMAIN df.cols) = Cardinality(Hazards) * Len(dists)
                /\ Range(df.labels) = ObjectsOf(tracks)
                /\ df.rows = Cardinality(ObjectsOf(tracks))
                /\ \A c \in DOMAIN df.cols : \A k \in 1..Len(df.labels) :
                      df.cols[c][k] = 1 <=>
                          df.labels[k] \in
                              match_objects(tracks,
                                            ReportsOf(f.date)[c.var],
                                            c.km \div 3)

\* a stage has just built its work list and handed it to its pool
JustDispatched(s) ==
    /\ pc = s
    /\ ph = "run"
    /\ \A i \in 1..Len(st[s]) : st[s][i] = "pending"

\* C13: every work item handed to the tracker, the feature engine or the
\* matching worker has an output path that does not exist when the work list
\* is built; an output file is written at most once, and one that a former
\* invocation completed is never written again.
C13_WrittenAtMostOnce ==
    \A s \in PoolStages :
        /\ JustDispatched(s) =>
              \A i \in 1..Len(work[s]) : OutputOf(s, work[s][i]) \notin fs
        /\ \A i, j \in 1..Len(work[s]) :
              (i # j /\ st[s][i] \in {"writing", "done"}
                     /\ st[s][j] \in {"writing", "done"})
                  => OutputOf(s, work[s][i]) # OutputOf(s, work[s][j])
        /\ \A i \in 1..Len(work[s]) : OutputOf(s, work[s][i]) \notin done0

(***************************** claims: feature work list *******************)
\* a file of a type and a time index exists in a run directory
Have(indir, tag, i) ==
    \E f \in fs : /\ f.date = indir.date /\ f.time = indir.time
                  /\ f.tag = tag /\ f.idx = i

\* every input file of window t of a run directory exists
WindowComplete(indir, t) ==
    /\ Have(indir, "ENSEMBLETRACKS", t + 6)
    /\ Have(indir, "ENV", t)
    /\ Have(indir, "SVR", t)
    /\ \A u \in t..(t + 6) : Have(indir, "ENS", u)

\* the feature stage's work list has an item for window t of a run directory
WindowBuilt(indir, t) ==
    \E i \in 1..Len(work["get_ml_features"]) :
        LET f == work["get_ml_features"][i].track_file
        IN  f.date = indir.date /\ f.time = indir.time /\ f.idx = t + 6

\* C14: for every window t in 0..30 of a run directory, the feature stage's
\* work list has an item only when the track file at t+6, the ENV file at t,
\* the SVR file at t and the ENS files at t..t+6 all exist; a window with a
\* missing file is dropped, and every complete window without a feature
\* table is still built.
C14_WindowsComplete ==
    JustDispatched("get_ml_features") =>
        \A k \in 1..Len(get_dirs) : \A t \in 0..30 :
            LET indir == get_dirs[k] IN
            /\ WindowBuilt(indir, t) => WindowComplete(indir, t)
            /\ (WindowComplete(indir, t) /\ ~Have(indir, "MLDATA", t + 6))
                  => WindowBuilt(indir, t)

(***************************** claims: assembly inputs **********************)
\* C15: when concatenate_dataframes is about to run after the three earlier
\* stages of the same call, every MLDATA file it discovers has its MLTARGETS
\* file on disk, also when work items of the earlier stages failed.
C15_TargetsPaired ==
    pc = "concatenate_dataframes" =>
        \A f \in Range(get_files("MLDATA")) :
            exists(ReplaceTag(f, "MLDATA", "MLTARGETS"))

\* C16: every MLDATA file the feature stage wrote has a time index in 6..36;
\* the forecast_time_index the assembler derives for each of its rows is in
\* 0..30, and every row of the combined table is in first_hour or in
\* second_hour.
C16_HorizonCovered ==
    /\ \A f \in fs : f.tag = "MLDATA" => TIME_INDEX(f) \in 6..36
    /\ final.built =>
          \A r \in 1..final.nrows :
              /\ final.forecast_time_index[r] \in 0..30
              /\ r \in final.first_hour \cup final.second_hour

C16_Witness ==
    /\ final.built
    /\ \E f \in fs : f.tag = "MLDATA" /\ TIME_INDEX(f) = 36
    /\ \E r \in final.second_hour \ final.first_hour :
          final.forecast_time_index[r] = 30

(***************************** the assembler alone *************************)
\* time indexes of the feature tables on disk: 6, 18, 19 and 36 are indexes
\* the feature stage writes, 42 and 43 stand for tables of another producer
AsmIdx == {6, 18, 19, 36, 42, 43}

InitAsm ==
    /\ dates = <<"20220504">>
    /\ \E S \in (SUBSET AsmIdx) \ {{}}, n \in {1, 2} :
          /\ fs = {Path("20220504", "2200", tag, i, "feather") :
                      tag \in {"MLDATA", "MLTARGETS"}, i \in S}
          /\ table = [f \in fs |->
                        [kind |-> IF f.tag = "MLDATA" THEN "features" ELSE "targets",
                         rows |-> n]]
    /\ partial = {}
    /\ grid = << >>
    /\ world = << >>
    /\ pc = "concatenate_dataframes"
    /\ ph = "build"
    /\ work = [s \in StageSet |-> <<>>]
    /\ st = [s \in StageSet |-> <<>>]
    /\ escaped = FALSE
    /\ inv = 1
    /\ done0 = {}
    /\ chk = NoChk
    /\ final = NoFinal
    /\ faults = 0

NextAsm == concatenate_dataframes

SpecAsm == InitAsm /\ [][NextAsm]_vars

(***************************** path derivation alone ***********************)
\* the tag pairs the pipeline derives paths for: files_to_run('30M',
\* 'ENSEMBLETRACKS'), ml_file, target_file
TagPairs == { <<"30M", "ENSEMBLETRACKS">>, <<"ENSEMBLETRACKS", "MLDATA">>,
              <<"ENSEMBLETRACKS", "MLTARGETS">> }

\* paths of the grammar {base}/{date}/{time}/wofs_{TYPE}_{index}*: the part
\* after the index is free, so a name may end in any extension
PathTags == OriginTags \cup DestTags \cup {"ENV"}
PathExts == {"nc", "feather", "json"}
GrammarPaths ==
    {Path("20220504", "2200", tag, i, e) :
        tag \in PathTags, i \in {5, 12, 37}, e \in PathExts}

\* f.replace(A, B).replace('.nc', '.feather')
derive(f, A, B) == ReplaceExt(ReplaceTag(f, A, B), "nc", "feather")

\* the substitutions of derive taken the other way round
derive_back(f, A, B) == ReplaceExt(ReplaceTag(f, B, A), "feather", "nc")

InitPath ==
    /\ dates = <<"20220504">>
    /\ \E f \in GrammarPaths, pr \in TagPairs :
          chk = [n |-> 0, A |-> pr[1], B |-> pr[2], origin |-> f]
    /\ fs = {}
    /\ partial = {}
    /\ grid = << >>
    /\ table = << >>
    /\ world = << >>
    /\ pc = "idle"
    /\ ph = "build"
    /\ work = [s \in StageSet |-> <<>>]
    /\ st = [s \in StageSet |-> <<>>]
    /\ escaped = FALSE
    /\ inv = 0
    /\ done0 = {}
    /\ final = NoFinal
    /\ faults = 0

\* the destination path is derived from the origin path
Derive ==
    /\ chk.n = 0
    /\ chk' = [n |-> 1, A |-> chk.A, B |-> chk.B, origin |-> chk.origin,
               there |-> derive(chk.origin, chk.A, chk.B)]
    /\ UNCHANGED <<dates, fs, partial, grid, table, pc, ph, work, st,
                   escaped, inv, done0, final, world, faults>>

\* the origin path is derived back from the destination path
DeriveBack ==
    /\ chk.n = 1
    /\ chk' = [n |-> 2, A |-> chk.A, B |-> chk.B, origin |-> chk.origin,
               there |-> chk.there,
               back |-> derive_back(chk.there, chk.A, chk.B)]
    /\ UNCHANGED <<dates, fs, partial, grid, table, pc, ph, work, st,
                   escaped, inv, done0, final, world, faults>>

NextPath == Derive \/ DeriveBack

SpecPath == InitPath /\ [][NextPath]_vars

====
